---- MODULE Spec2Model ----
(***************************************************************************)
(* One critique round of debate.py: main() dispatches the artifact to the  *)
(* roster through call_models_parallel, every roster entry runs            *)
(* call_single_model in its own worker thread (bounded retry with          *)
(* exponential backoff, then CostTracker.add on the shared cost_tracker),  *)
(* the main thread collects the futures with as_completed and aggregates.  *)
(*                                                                         *)
(* Texts are sequences of tokens; the markers [AGREE], [SPEC] and [/SPEC]  *)
(* are single tokens and " " is whitespace.  Optional values are sequences *)
(* of length 0 (None) or 1.  Dollar amounts are integers in units of 1e-8  *)
(* dollar per token, so that tokens / 1e6 * price is exact.                *)
(***************************************************************************)
EXTENDS Integers, Sequences, FiniteSets, TLC

VARIABLES models, spec, completion, mainpc, pending, results, all_agreed, latest_spec,
          pc, attempt, last_error, cur, reg, ref, io, calls, resp,
          cost_tracker, heap,
          args, stdin, session_state, exit_code, sessions, checkpoints, now,
          text, span, listing

vars == <<models, spec, completion, mainpc, pending, results, all_agreed, latest_spec,
          pc, attempt, last_error, cur, reg, ref, io, calls, resp,
          cost_tracker, heap,
          args, stdin, session_state, exit_code, sessions, checkpoints, now,
          text, span, listing>>

mainVars == <<mainpc, pending, results, all_agreed, latest_spec>>
inputVars == <<models, spec, completion>>
ledgerVars == <<cost_tracker, heap>>
workerVars == <<pc, attempt, last_error, cur, reg, ref, io, calls, resp>>
\* The files of SESSIONS_DIR and CHECKPOINTS_DIR, and the wall clock.
diskVars == <<sessions, checkpoints, now>>
\* The command line, the SessionState of main and the exit status.
procVars == <<args, stdin, session_state, exit_code>>
\* Argument and result of a direct call of extract_spec, and the result of
\* list_sessions.
callVars == <<text, span, listing>>

(***************************************************************************)
(* Bounds of the model.                                                    *)
(***************************************************************************)
MaxTok == 1
\* No new process is started once the clock has reached MaxClock.
MaxClock == 5
\* Length of the texts extract_spec is called on directly.
MaxLen == 5
\* No session is saved once the clock has reached MaxStamp, where only
\* SessionState.save and list_sessions are called.
MaxStamp == 8

(***************************************************************************)
(* Program constants.                                                      *)
(***************************************************************************)
MAX_RETRIES == 3
RETRY_BASE_DELAY == 1

None == <<>>
Some(v) == <<v>>

KnownModel == "gpt-5.2"
UnknownModel == "critic-x"

MODEL_COSTS == [m \in {KnownModel} |-> [input |-> 175, output |-> 1400]]
DEFAULT_COST == [input |-> 500, output |-> 1500]

(***************************************************************************)
(* Inputs: rosters given on the command line, the artifact read from       *)
(* stdin, and what the completion capability can answer.                   *)
(***************************************************************************)
Rosters == {<<>>, <<KnownModel>>, <<KnownModel, UnknownModel>>,
            <<KnownModel, KnownModel>>}
Artifacts == {<<"X">>}

Contents == { <<"[AGREE]">>,
              <<"[AGREE]", "[SPEC]", "V1", "[/SPEC]">>,
              <<"critique", "[SPEC]", " ", "V2", " ", "[/SPEC]">>,
              <<"critique">>,
              <<"[/SPEC]", "V3", "[SPEC]">> }
Usages == {None} \cup
          {Some([prompt_tokens |-> p, completion_tokens |-> c]) :
               p \in 1..MaxTok, c \in 1..MaxTok}
ErrorMessages == {"", "timeout"}

\* What one completion() request does: it returns a response or raises.
Returns == {[content |-> c, usage |-> u] : c \in Contents, u \in Usages}
Raises == {[raises |-> m] : m \in ErrorMessages}
IsRaise(o) == "raises" \in DOMAIN o

\* What the provider does to the successive requests of one invocation: it
\* raises on the first k requests and answers the next one, or it raises on
\* all MAX_RETRIES requests.
Scripts ==
    {f \o <<r>> : f \in UNION {[1..k -> Raises] : k \in 0..(MAX_RETRIES - 1)},
                  r \in Returns}
    \cup [1..MAX_RETRIES -> Raises]

\* The scripts of the invocations of a roster of n critics: every script for
\* a single critic; for concurrent critics every text answered at once with
\* the largest usage, the agreeing text answered at once with every usage,
\* every exhaustion with one message, and one answer after two failures.
ScriptsOf(n) ==
    IF n = 1 THEN Scripts
    ELSE {s \in Scripts :
            \/ /\ Len(s) = 1
               /\ \/ s[1].content = <<"[AGREE]">>
                  \/ s[1].usage = Some([prompt_tokens |-> MaxTok,
                                        completion_tokens |-> MaxTok])
            \/ /\ Len(s) = MAX_RETRIES
               /\ IsRaise(s[Len(s)])
               /\ \A k \in 1..Len(s) : s[k] = s[1]
            \/ s = <<[raises |-> "timeout"], [raises |-> ""],
                     [content |-> <<"[AGREE]">>, usage |-> None]>>}

(***************************************************************************)
(* Pure functions.                                                         *)
(***************************************************************************)
RECURSIVE Pow2(_)
Pow2(k) == IF k = 0 THEN 1 ELSE 2 * Pow2(k - 1)

\* s[a:b] of Python for 0 <= a, 0 <= b (0-based, end exclusive).
Slice(s, a, b) ==
    LET hi == IF b > Len(s) THEN Len(s) ELSE b
    IN  IF a >= hi THEN <<>> ELSE SubSeq(s, a + 1, hi)

\* s.find(tok): 0-based index of the first occurrence, -1 when absent.
Find(s, tok) ==
    IF \E j \in 1..Len(s) : s[j] = tok
    THEN (CHOOSE j \in 1..Len(s) :
              s[j] = tok /\ \A k \in 1..(j - 1) : s[k] # tok) - 1
    ELSE -1

\* tok in s
Contains(s, tok) == \E j \in 1..Len(s) : s[j] = tok

RECURSIVE LStrip(_)
LStrip(s) == IF s # <<>> /\ Head(s) = " " THEN LStrip(Tail(s)) ELSE s

RECURSIVE RStrip(_)
RStrip(s) == IF s # <<>> /\ s[Len(s)] = " "
             THEN RStrip(SubSeq(s, 1, Len(s) - 1)) ELSE s

Strip(s) == RStrip(LStrip(s))

\* The text between the markers as it stands, without strip().
extract_spec_untrimmed(response) ==
    IF ~Contains(response, "[SPEC]") \/ ~Contains(response, "[/SPEC]")
    THEN None
    ELSE LET start == Find(response, "[SPEC]") + 1
             end == Find(response, "[/SPEC]")
         IN  Some(Slice(response, start, end))

\* extract_spec, lines 686-691.
extract_spec(response) ==
    IF ~Contains(response, "[SPEC]") \/ ~Contains(response, "[/SPEC]")
    THEN None
    ELSE LET start == Find(response, "[SPEC]") + 1
             end == Find(response, "[/SPEC]")
         IN  Some(Strip(Slice(response, start, end)))

\* Truth value Python gives an Optional[str].
Truthy(opt) == opt # None /\ Len(opt[1]) > 0
ErrTruthy(opt) == opt # None /\ opt[1] # ""

Costs(model) == IF model \in DOMAIN MODEL_COSTS THEN MODEL_COSTS[model]
                ELSE DEFAULT_COST

AddCost(model, input_tokens, output_tokens) ==
    input_tokens * Costs(model).input + output_tokens * Costs(model).output

ModelResponse(model, response, agreed, extracted, error, itok, otok, cost) ==
    [model |-> model, response |-> response, agreed |-> agreed,
     spec |-> extracted, error |-> error, input_tokens |-> itok,
     output_tokens |-> otok, cost |-> cost]

CostTracker == [total_input_tokens |-> 0, total_output_tokens |-> 0,
                total_cost |-> 0, by_model |-> [m \in {} |-> 0]]

ZeroEntry == [input_tokens |-> 0, output_tokens |-> 0, cost |-> 0]

Threads == 1..Len(models)

(***************************************************************************)
(* The command line of main, SessionState and the files it is kept in.     *)
(***************************************************************************)
Configs == {[focus |-> None, persona |-> None, preserve_intent |-> FALSE],
            [focus |-> Some("risks"), persona |-> Some("skeptic"),
             preserve_intent |-> TRUE],
            [focus |-> Some("assumptions"), persona |-> Some(""),
             preserve_intent |-> FALSE]}

Args(session, resume, profile, config) ==
    [session |-> session, resume |-> resume, profile |-> profile,
     round |-> 1, focus |-> config.focus, persona |-> config.persona,
     preserve_intent |-> config.preserve_intent]

\* main called for a round without --session, --resume, --profile.
NoArgs == Args(None, None, None,
               [focus |-> None, persona |-> None, preserve_intent |-> FALSE])

\* --models of the command line, parsed at line 895.
CommandRosters == {<<>>, <<KnownModel>>, <<KnownModel, UnknownModel>>}

\* SessionState(...) with the dataclass defaults, lines 453-465.  A
\* timestamp is the reading of the clock, 0 stands for "".
SessionState(session_id, artifact, round, roster, focus, persona, preserve_intent, created_at) ==
    [session_id |-> session_id, spec |-> artifact, round |-> round,
     models |-> roster, focus |-> focus, persona |-> persona,
     preserve_intent |-> preserve_intent, created_at |-> created_at,
     updated_at |-> 0, history |-> <<>>]

\* A session file that is not JSON.
CorruptFile == [valid |-> FALSE, body |-> <<>>]

\* A serialisation that leaves the history out.
Dumps_without_history(st) ==
    <<<<"session_id", st.session_id>>, <<"spec", st.spec>>,
      <<"round", st.round>>, <<"models", st.models>>,
      <<"focus", st.focus>>, <<"persona", st.persona>>,
      <<"preserve_intent", st.preserve_intent>>,
      <<"created_at", st.created_at>>, <<"updated_at", st.updated_at>>,
      <<"history", <<>>>>>>

\* json.dumps(asdict(self)): the JSON object, its members in field order.
Dumps(st) ==
    <<<<"session_id", st.session_id>>, <<"spec", st.spec>>,
      <<"round", st.round>>, <<"models", st.models>>,
      <<"focus", st.focus>>, <<"persona", st.persona>>,
      <<"preserve_intent", st.preserve_intent>>,
      <<"created_at", st.created_at>>, <<"updated_at", st.updated_at>>,
      <<"history", st.history>>>>

Member(body, key) ==
    body[CHOOSE j \in 1..Len(body) : body[j][1] = key][2]

\* cls(**json.loads(text)), lines 478-479.
Loads(body) ==
    [session_id |-> Member(body, "session_id"), spec |-> Member(body, "spec"),
     round |-> Member(body, "round"), models |-> Member(body, "models"),
     focus |-> Member(body, "focus"), persona |-> Member(body, "persona"),
     preserve_intent |-> Member(body, "preserve_intent"),
     created_at |-> Member(body, "created_at"),
     updated_at |-> Member(body, "updated_at"),
     history |-> Member(body, "history")]

\* The SessionState as save() leaves it when the clock reads t, line 469.
Stamped(st, t) == [st EXCEPT !.updated_at = t]

\* A session file of id exists and is JSON.
HasFile(files, id) == id \in DOMAIN files /\ files[id].valid

\* The session files after save() of st at t, lines 470-471.
Written(st, t) ==
    [id \in DOMAIN sessions \cup {st.session_id} |->
         IF id = st.session_id
         THEN [valid |-> TRUE, body |-> Dumps(Stamped(st, t))]
         ELSE sessions[id]]

\* The checkpoint files after save_checkpoint, lines 499-505.
Checkpointed(artifact, round_num, session_id) ==
    LET prefix == IF ErrTruthy(session_id) THEN <<session_id[1], "-">>
                  ELSE <<>>
        path == <<prefix, "round-", round_num, ".md">>
    IN  {f \in checkpoints : f.path # path}
        \cup {[path |-> path, content |-> artifact]}

\* The history entry of a round, lines 979-983.
HistoryEntry(round_num, agreed, rs) ==
    [round |-> round_num, all_agreed |-> agreed,
     models |-> [j \in 1..Len(rs) |->
                    [model |-> rs[j].model, agreed |-> rs[j].agreed,
                     error |-> rs[j].error]]]

\* The files of a configuration directory in which no session was created
\* and one file was damaged.
InitialSessions == [id \in {"bad"} |-> CorruptFile]

\* The scripts of the rounds of a session.
ScriptAgree == <<[content |-> <<"[AGREE]">>, usage |-> None]>>
ScriptRevise ==
    <<[content |-> <<"critique", "[SPEC]", " ", "V2", " ", "[/SPEC]">>,
      usage |-> Some([prompt_tokens |-> MaxTok,
                      completion_tokens |-> MaxTok])]>>
ScriptExhaust(msg) == [k \in 1..MAX_RETRIES |-> [raises |-> msg]]

SessionCompletions(roster) ==
    IF Len(roster) = 1
    THEN {<<ScriptAgree>>, <<ScriptRevise>>, <<ScriptExhaust("timeout")>>}
    ELSE IF Len(roster) = 2
    THEN {<<ScriptAgree, ScriptRevise>>,
          <<ScriptExhaust("timeout"), ScriptExhaust("")>>,
          <<ScriptAgree, ScriptExhaust("timeout")>>}
    ELSE {<<>>}

(***************************************************************************)
(* Locals of call_single_model after a successful completion.              *)
(***************************************************************************)
Content(i) == cur[i][1].content
InputTokens(i) == IF cur[i][1].usage # None
                  THEN cur[i][1].usage[1].prompt_tokens ELSE 0
OutputTokens(i) == IF cur[i][1].usage # None
                   THEN cur[i][1].usage[1].completion_tokens ELSE 0
Cost(i) == AddCost(models[i], InputTokens(i), OutputTokens(i))

Init ==
    /\ models \in Rosters
    /\ spec \in Artifacts
    /\ completion \in [Threads -> ScriptsOf(Len(models))]
    /\ mainpc = "start"
    /\ pending = {}
    /\ results = <<>>
    /\ all_agreed = FALSE
    /\ latest_spec = spec
    /\ pc = [i \in Threads |-> "idle"]
    /\ attempt = [i \in Threads |-> 0]
    /\ last_error = [i \in Threads |-> None]
    /\ cur = [i \in Threads |-> None]
    /\ reg = [i \in Threads |-> 0]
    /\ ref = [i \in Threads |-> 0]
    /\ io = [i \in Threads |-> <<>>]
    /\ calls = [i \in Threads |-> <<>>]
    /\ resp = [i \in Threads |-> None]
    /\ cost_tracker = CostTracker
    /\ heap = [d \in Threads |-> ZeroEntry]
    /\ args = NoArgs
    /\ stdin = <<>>
    /\ session_state = None
    /\ exit_code = None
    /\ sessions = InitialSessions
    /\ checkpoints = {}
    /\ now = 1
    /\ text = <<>>
    /\ span = None
    /\ listing = <<>>

(***************************************************************************)
(* call_models_parallel: submit one call_single_model per roster entry.    *)
(***************************************************************************)
\* ThreadPoolExecutor(max_workers=0) raises ValueError, line 674.
Submit ==
    /\ mainpc = "start"
    /\ mainpc' = IF Len(models) = 0 THEN "raised" ELSE "as_completed"
    /\ pending' = Threads
    /\ pc' = [i \in Threads |-> "submitted"]
    /\ UNCHANGED <<inputVars, diskVars, procVars, callVars, results, all_agreed, latest_spec, attempt,
                   last_error, cur, reg, ref, io, calls, resp, ledgerVars>>

(***************************************************************************)
(* call_single_model, one worker thread per roster entry.                  *)
(***************************************************************************)
\* An executor with a single worker thread.
Start_single_worker(i) ==
    /\ pc[i] = "submitted"
    /\ \A j \in Threads \ {i} : pc[j] \in {"submitted", "returned"}
    /\ pc' = [pc EXCEPT ![i] = "call"]
    /\ UNCHANGED <<inputVars, diskVars, procVars, callVars, mainVars, attempt,
                   last_error, cur, reg, ref, io, calls, resp, ledgerVars>>

\* The executor has a worker for every submitted call, line 674.
Start(i) ==
    /\ pc[i] = "submitted"
    /\ pc' = [pc EXCEPT ![i] = "call"]
    /\ UNCHANGED <<inputVars, diskVars, procVars, callVars, mainVars, attempt, last_error, cur, reg, ref,
                   io, calls, resp, ledgerVars>>

\* The frame of a call that has returned no longer exists.
PopFrame(i) ==
    /\ attempt' = [attempt EXCEPT ![i] = 0]
    /\ last_error' = [last_error EXCEPT ![i] = None]
    /\ cur' = [cur EXCEPT ![i] = None]
    /\ reg' = [reg EXCEPT ![i] = 0]
    /\ ref' = [ref EXCEPT ![i] = 0]

\* An except clause that gives up after the first failure.
AfterFailure_gives_up(k) == "exhausted"

\* An except clause that lets the failure of the last attempt escape.
AfterFailure_reraise(k) == IF k < MAX_RETRIES - 1 THEN "sleep" ELSE "raised"

\* Where the except clause of attempt k leads: lines 652-657.
AfterFailure(k) == IF k < MAX_RETRIES - 1 THEN "sleep" ELSE "exhausted"

\* cost_tracker.add(model, input_tokens, output_tokens) as line 639 calls
\* it for the completion o, the tokens being those of lines 637-638.
AddCall(model, o) ==
    <<model,
      IF o.usage # None THEN o.usage[1].prompt_tokens ELSE 0,
      IF o.usage # None THEN o.usage[1].completion_tokens ELSE 0>>

\* A text with neither an agreement marker nor a delimited artifact.
Malformed(content) ==
    /\ ~Contains(content, "[AGREE]")
    /\ \/ ~Contains(content, "[SPEC]")
       \/ ~Contains(content, "[/SPEC]")

\* A completion whose malformed text is handled as a failed attempt.
CompletionReturns_validates(i) ==
    /\ pc[i] = "call"
    /\ ~IsRaise(completion[i][attempt[i] + 1])
    /\ io' = [io EXCEPT ![i] = Append(@, <<"completion", attempt[i]>>)]
    /\ IF Malformed(completion[i][attempt[i] + 1].content)
       THEN /\ last_error' = [last_error EXCEPT ![i] = Some("malformed")]
            /\ pc' = [pc EXCEPT ![i] = AfterFailure(attempt[i])]
            /\ cur' = cur
            /\ calls' = calls
       ELSE /\ cur' = [cur EXCEPT ![i] =
                          Some(completion[i][attempt[i] + 1])]
            /\ pc' = [pc EXCEPT ![i] = "L426r"]
            /\ last_error' = last_error
            /\ calls' = [calls EXCEPT ![i] =
                            Append(@, AddCall(models[i],
                                              completion[i][attempt[i] + 1]))]
    /\ UNCHANGED <<inputVars, diskVars, procVars, callVars, mainVars,
                   attempt, reg, ref, resp, ledgerVars>>

\* completion() returns: lines 620-638, then cost_tracker.add is entered.
CompletionReturns(i) ==
    /\ pc[i] = "call"
    /\ ~IsRaise(completion[i][attempt[i] + 1])
    /\ cur' = [cur EXCEPT ![i] = Some(completion[i][attempt[i] + 1])]
    /\ io' = [io EXCEPT ![i] = Append(@, <<"completion", attempt[i]>>)]
    /\ calls' = [calls EXCEPT ![i] =
                    Append(@, AddCall(models[i],
                                      completion[i][attempt[i] + 1]))]
    /\ pc' = [pc EXCEPT ![i] = "L426r"]
    /\ UNCHANGED <<inputVars, diskVars, procVars, callVars, mainVars, attempt, last_error, reg, ref, resp,
                   ledgerVars>>

\* A failed attempt that is reported to the ledger with zero usage.
CompletionRaises_counts(i) ==
    /\ pc[i] = "call"
    /\ IsRaise(completion[i][attempt[i] + 1])
    /\ last_error' = [last_error EXCEPT ![i] =
                          Some(completion[i][attempt[i] + 1].raises)]
    /\ io' = [io EXCEPT ![i] = Append(@, <<"completion", attempt[i]>>)]
    /\ calls' = [calls EXCEPT ![i] = Append(@, <<models[i], 0, 0>>)]
    /\ pc' = [pc EXCEPT ![i] = AfterFailure(attempt[i])]
    /\ UNCHANGED <<inputVars, diskVars, procVars, callVars, mainVars,
                   attempt, cur, reg, ref, resp, ledgerVars>>

\* completion() raises: lines 650-657.
CompletionRaises(i) ==
    /\ pc[i] = "call"
    /\ IsRaise(completion[i][attempt[i] + 1])
    /\ last_error' = [last_error EXCEPT ![i] =
                          Some(completion[i][attempt[i] + 1].raises)]
    /\ io' = [io EXCEPT ![i] = Append(@, <<"completion", attempt[i]>>)]
    /\ pc' = [pc EXCEPT ![i] = AfterFailure(attempt[i])]
    /\ UNCHANGED <<inputVars, diskVars, procVars, callVars, mainVars, attempt, cur, reg, ref, calls,
                   resp, ledgerVars>>

\* A backoff that counts attempts from 1.
Delay_from_one(k) == RETRY_BASE_DELAY * Pow2(k + 1)

\* delay = RETRY_BASE_DELAY * (2 ** attempt), line 653.
Delay(k) == RETRY_BASE_DELAY * Pow2(k)

\* time.sleep(delay), then the next iteration of the for loop.
Sleep(i) ==
    /\ pc[i] = "sleep"
    /\ io' = [io EXCEPT ![i] = Append(@, <<"sleep", Delay(attempt[i])>>)]
    /\ attempt' = [attempt EXCEPT ![i] = @ + 1]
    /\ pc' = [pc EXCEPT ![i] = "call"]
    /\ UNCHANGED <<inputVars, diskVars, procVars, callVars, mainVars, last_error, cur, reg, ref, calls,
                   resp, ledgerVars>>

ErrorResponse(model, error) ==
    ModelResponse(model, <<>>, FALSE, None, error, 0, 0, 0)

\* An exhausted invocation that reports zero usage to the ledger.
ReturnError_adds(i) ==
    /\ pc[i] = "exhausted"
    /\ resp' = [resp EXCEPT ![i] = Some(ErrorResponse(models[i],
                                                      last_error[i]))]
    /\ pc' = [pc EXCEPT ![i] = "returned"]
    /\ PopFrame(i)
    /\ cost_tracker' = [cost_tracker EXCEPT !.by_model =
           [m \in DOMAIN @ \cup {models[i]} |->
                IF m \in DOMAIN @ THEN @[m] ELSE i]]
    /\ UNCHANGED <<inputVars, diskVars, procVars, callVars, mainVars, io, calls, heap>>

\* The loop is exhausted: line 659.
ReturnError(i) ==
    /\ pc[i] = "exhausted"
    /\ resp' = [resp EXCEPT ![i] = Some(ErrorResponse(models[i],
                                                      last_error[i]))]
    /\ pc' = [pc EXCEPT ![i] = "returned"]
    /\ PopFrame(i)
    /\ UNCHANGED <<inputVars, diskVars, procVars, callVars, mainVars, io, calls, ledgerVars>>

\* A success response that carries the error of an earlier failed attempt.
SuccessResponse_stale_error(i) ==
    ModelResponse(models[i], Content(i), Contains(Content(i), "[AGREE]"),
                  extract_spec(Content(i)), last_error[i],
                  InputTokens(i), OutputTokens(i), Cost(i))

SuccessResponse(i) ==
    ModelResponse(models[i], Content(i), Contains(Content(i), "[AGREE]"),
                  extract_spec(Content(i)), None,
                  InputTokens(i), OutputTokens(i), Cost(i))

(***************************************************************************)
(* CostTracker.add on the shared cost_tracker.  No lock is taken, so each  *)
(* augmented assignment is a read followed by a write, and a thread switch *)
(* can happen between any two of them.                                     *)
(***************************************************************************)
TotalReads == {"L426r", "L427r", "L428r"}
TotalWrites == {"L426w", "L427w", "L428w"}
EntryGets == {"L432g", "L433g", "L434g"}
EntryReads == {"L432r", "L433r", "L434r"}
EntryWrites == {"L432w", "L433w", "L434w"}
AddPcs == TotalReads \cup TotalWrites \cup {"L430", "L431"} \cup EntryGets
          \cup EntryReads \cup EntryWrites

NextPc(p) ==
    CASE p = "L426r" -> "L426w" [] p = "L426w" -> "L427r"
      [] p = "L427r" -> "L427w" [] p = "L427w" -> "L428r"
      [] p = "L428r" -> "L428w" [] p = "L428w" -> "L430"
      [] p = "L431" -> "L432g"
      [] p = "L432g" -> "L432r" [] p = "L432r" -> "L432w"
      [] p = "L432w" -> "L433g"
      [] p = "L433g" -> "L433r" [] p = "L433r" -> "L433w"
      [] p = "L433w" -> "L434g"
      [] p = "L434g" -> "L434r" [] p = "L434r" -> "L434w"
      [] p = "L434w" -> "returned"

TotalField(p) ==
    CASE p \in {"L426r", "L426w"} -> "total_input_tokens"
      [] p \in {"L427r", "L427w"} -> "total_output_tokens"
      [] p \in {"L428r", "L428w"} -> "total_cost"

EntryField(p) ==
    CASE p \in {"L432g", "L432r", "L432w"} -> "input_tokens"
      [] p \in {"L433g", "L433r", "L433w"} -> "output_tokens"
      [] p \in {"L434g", "L434r", "L434w"} -> "cost"

\* The right-hand side of the augmented assignment at p.
Amount(i, p) ==
    CASE p \in {"L426w", "L432w"} -> InputTokens(i)
      [] p \in {"L427w", "L433w"} -> OutputTokens(i)
      [] p \in {"L428w", "L434w"} -> Cost(i)

AddReadTotal(i) ==
    /\ pc[i] \in TotalReads
    /\ reg' = [reg EXCEPT ![i] = cost_tracker[TotalField(pc[i])]]
    /\ pc' = [pc EXCEPT ![i] = NextPc(pc[i])]
    /\ UNCHANGED <<inputVars, diskVars, procVars, callVars, mainVars, attempt, last_error, cur, ref, io, calls,
                   resp, ledgerVars>>

AddWriteTotal(i) ==
    /\ pc[i] \in TotalWrites
    /\ cost_tracker' = [cost_tracker EXCEPT
                           ![TotalField(pc[i])] = reg[i] + Amount(i, pc[i])]
    /\ pc' = [pc EXCEPT ![i] = NextPc(pc[i])]
    /\ UNCHANGED <<inputVars, diskVars, procVars, callVars, mainVars, attempt, last_error, cur, reg, ref,
                   io, calls, resp, heap>>

\* if model not in self.by_model, line 430.
AddCheckModel(i) ==
    /\ pc[i] = "L430"
    /\ pc' = [pc EXCEPT ![i] = IF models[i] \in DOMAIN cost_tracker.by_model
                               THEN "L432g" ELSE "L431"]
    /\ UNCHANGED <<inputVars, diskVars, procVars, callVars, mainVars, attempt, last_error, cur, reg, ref,
                   io, calls, resp, ledgerVars>>

\* self.by_model[model] = {fresh dict}, line 431.  The dict a thread
\* allocates is heap[i]; a thread allocates at most one.
AddCreateEntry(i) ==
    /\ pc[i] = "L431"
    /\ cost_tracker' = [cost_tracker EXCEPT !.by_model =
           [m \in DOMAIN @ \cup {models[i]} |->
                IF m = models[i] THEN i ELSE @[m]]]
    /\ heap' = [heap EXCEPT ![i] = ZeroEntry]
    /\ pc' = [pc EXCEPT ![i] = NextPc(pc[i])]
    /\ UNCHANGED <<inputVars, diskVars, procVars, callVars, mainVars, attempt, last_error, cur, reg, ref,
                   io, calls, resp>>

\* self.by_model[model], the dict the augmented assignment works on.
AddGetEntry(i) ==
    /\ pc[i] \in EntryGets
    /\ ref' = [ref EXCEPT ![i] = cost_tracker.by_model[models[i]]]
    /\ pc' = [pc EXCEPT ![i] = NextPc(pc[i])]
    /\ UNCHANGED <<inputVars, diskVars, procVars, callVars, mainVars, attempt, last_error, cur, reg, io, calls,
                   resp, ledgerVars>>

AddReadEntry(i) ==
    /\ pc[i] \in EntryReads
    /\ reg' = [reg EXCEPT ![i] = heap[ref[i]][EntryField(pc[i])]]
    /\ pc' = [pc EXCEPT ![i] = NextPc(pc[i])]
    /\ UNCHANGED <<inputVars, diskVars, procVars, callVars, mainVars, attempt, last_error, cur, ref, io, calls,
                   resp, ledgerVars>>

\* The last write of add is followed by return cost (line 436) and the
\* return of the ModelResponse (lines 641-649), which touch no shared state.
AddWriteEntry(i) ==
    /\ pc[i] \in EntryWrites
    /\ heap' = [heap EXCEPT ![ref[i]][EntryField(pc[i])] =
                                reg[i] + Amount(i, pc[i])]
    /\ pc' = [pc EXCEPT ![i] = NextPc(pc[i])]
    /\ IF pc[i] = "L434w"
       THEN /\ resp' = [resp EXCEPT ![i] = Some(SuccessResponse(i))]
            /\ PopFrame(i)
       ELSE UNCHANGED <<attempt, last_error, cur, reg, ref, resp>>
    /\ UNCHANGED <<inputVars, diskVars, procVars, callVars, mainVars, io, calls, cost_tracker>>

(***************************************************************************)
(* call_models_parallel, lines 681-683, and main, lines 956-973.           *)
(***************************************************************************)
\* as_completed yields a finished future: those finished before the call in
\* the iteration order of a set, the others as they finish.
\* future.result() re-raises what the call raised, line 682.
Collect(i) ==
    /\ mainpc = "as_completed"
    /\ i \in pending
    /\ pc[i] \in {"returned", "raised"}
    /\ IF pc[i] = "returned"
       THEN /\ results' = Append(results, resp[i][1])
            /\ mainpc' = mainpc
       ELSE /\ results' = results
            /\ mainpc' = "aborted"
    /\ pending' = pending \ {i}
    /\ UNCHANGED <<inputVars, diskVars, procVars, callVars, all_agreed, latest_spec, pc, attempt,
                   last_error, cur, reg, ref, io, calls, resp, ledgerVars>>

\* A collection that returns with the first response.
Join_first_completed ==
    /\ mainpc = "as_completed"
    /\ results # <<>>
    /\ mainpc' = "joined"
    /\ UNCHANGED <<inputVars, diskVars, procVars, callVars, pending, results,
                   all_agreed, latest_spec, workerVars, ledgerVars>>

\* The executor shuts down and the results are returned, line 683.
Join ==
    /\ mainpc = "as_completed"
    /\ pending = {}
    /\ mainpc' = "joined"
    /\ UNCHANGED <<inputVars, diskVars, procVars, callVars, pending, results, all_agreed, latest_spec, pc,
                   attempt, last_error, cur, reg, ref, io, calls, resp, ledgerVars>>

\* [r for r in results if not r.error], line 960.
Successful(rs) == SelectSeq(rs, LAMBDA r : ~ErrTruthy(r.error))

\* all(r.agreed for r in successful) if successful else False, line 961.
AllAgreed(rs) ==
    LET successful == Successful(rs)
    IN  IF successful # <<>>
        THEN \A j \in 1..Len(successful) : successful[j].agreed
        ELSE FALSE

\* The first response of successful with a truthy spec, lines 969-973.
LatestSpec(rs, current) ==
    LET successful == Successful(rs)
        withSpec == {j \in 1..Len(successful) : Truthy(successful[j].spec)}
    IN  IF withSpec = {} THEN current
        ELSE successful[CHOOSE j \in withSpec :
                            \A k \in withSpec : j <= k].spec[1]

Aggregate ==
    /\ mainpc = "joined"
    /\ all_agreed' = AllAgreed(results)
    /\ latest_spec' = LatestSpec(results, spec)
    /\ mainpc' = IF session_state # None \/ args.session # None
                 THEN "L963" ELSE "done"
    /\ UNCHANGED <<inputVars, diskVars, procVars, callVars, pending, results, pc, attempt, last_error, cur,
                   reg, ref, io, calls, resp, ledgerVars>>

Worker(i) ==
    \/ Start(i)
    \/ CompletionReturns(i)
    \/ CompletionRaises(i)
    \/ Sleep(i)
    \/ ReturnError(i)
    \/ AddReadTotal(i)
    \/ AddWriteTotal(i)
    \/ AddCheckModel(i)
    \/ AddCreateEntry(i)
    \/ AddGetEntry(i)
    \/ AddReadEntry(i)
    \/ AddWriteEntry(i)

Next ==
    \/ Submit
    \/ \E i \in Threads : Worker(i)
    \/ \E i \in Threads : Collect(i)
    \/ Join
    \/ Aggregate

Spec == Init /\ [][Next]_vars

\* The round when every thread that can take a step eventually takes one
\* (a completion call and a sleep return, the executor runs what was
\* submitted) and the main thread goes on whenever it can.
MaxRoster == 2

\* Concurrent critics of the fair round answer at once, fail on every
\* attempt, or answer on the last attempt.
FairScripts ==
    {ScriptAgree, ScriptExhaust("timeout"),
     <<[raises |-> "timeout"], [raises |-> ""],
       [content |-> <<"[AGREE]">>, usage |-> None]>>}

InitFair ==
    /\ Init
    /\ Len(models) > 1 => \A i \in Threads : completion[i] \in FairScripts

FairSpec ==
    /\ InitFair
    /\ [][Next]_vars
    /\ \A i \in 1..MaxRoster : WF_vars(i \in Threads /\ Worker(i))
    /\ WF_vars(Submit)
    /\ WF_vars(\E i \in Threads : Collect(i))
    /\ WF_vars(Join)
    /\ WF_vars(Aggregate)

(***************************************************************************)
(* main: one process per command line, over the files the earlier          *)
(* processes left.                                                         *)
(***************************************************************************)
Invocation(a, in, roster, scripts) ==
    [args |-> a, stdin |-> in, models |-> roster, completion |-> scripts]

DefaultConfig == CHOOSE c \in Configs : c.focus = None

\* The runs of main: critiques with and without --session of the artifact
\* on stdin, by one or two critics; critiques refused for an empty stdin,
\* an empty --models or an unknown --profile; a critique with --session of
\* another artifact and one with --round 2; --resume of the session s1,
\* of an id without a file and of an id whose file is damaged.  The
\* scripts of a resumed round are drawn once the roster has been loaded.
Invocations ==
    {Invocation(Args(se, None, None, c), <<" ", "X", " ">>, r, f) :
         se \in {Some("s1")}, c \in Configs,
         r \in CommandRosters \ {<<>>},
         f \in UNION {SessionCompletions(q) : q \in CommandRosters}}
    \cup {Invocation(NoArgs, <<"X">>, <<KnownModel>>, <<ScriptRevise>>)}
    \cup {Invocation(Args(Some("s1"), None, None, DefaultConfig), <<"Y">>,
                     <<KnownModel>>, <<ScriptAgree>>)}
    \cup {Invocation([Args(Some("s1"), None, None, DefaultConfig)
                          EXCEPT !.round = 2],
                     <<"X">>, <<KnownModel>>, <<ScriptAgree>>)}
    \cup {Invocation(Args(Some("s1"), None, None, DefaultConfig), in, r,
                     <<ScriptAgree>>) :
              in \in {<<>>, <<" ">>}, r \in {<<KnownModel>>}}
    \cup {Invocation(Args(Some("s1"), None, None, DefaultConfig), <<"X">>,
                     <<>>, <<>>)}
    \cup {Invocation(Args(Some("s1"), None, Some("nope"), DefaultConfig),
                     <<"X">>, <<KnownModel>>, <<ScriptAgree>>)}
    \cup {Invocation(Args(None, Some(id), None, c), <<>>, <<KnownModel>>,
                     <<ScriptAgree>>) :
              id \in {"s1", "s2", "bad"}, c \in Configs}

Runnable(inv) == DOMAIN inv.completion = 1..Len(inv.models)

InitMain ==
    /\ \E inv \in {x \in Invocations : Runnable(x)} :
           /\ args = inv.args
           /\ stdin = inv.stdin
           /\ models = inv.models
           /\ completion = inv.completion
    /\ spec = <<>>
    /\ mainpc = "L881"
    /\ pending = {}
    /\ results = <<>>
    /\ all_agreed = FALSE
    /\ latest_spec = <<>>
    /\ pc = [i \in Threads |-> "idle"]
    /\ attempt = [i \in Threads |-> 0]
    /\ last_error = [i \in Threads |-> None]
    /\ cur = [i \in Threads |-> None]
    /\ reg = [i \in Threads |-> 0]
    /\ ref = [i \in Threads |-> 0]
    /\ io = [i \in Threads |-> <<>>]
    /\ calls = [i \in Threads |-> <<>>]
    /\ resp = [i \in Threads |-> None]
    /\ cost_tracker = CostTracker
    /\ heap = [d \in Threads |-> ZeroEntry]
    /\ session_state = None
    /\ exit_code = None
    /\ sessions = InitialSessions
    /\ checkpoints = {}
    /\ now = 1
    /\ text = <<>>
    /\ span = None
    /\ listing = <<>>

\* An exit that reports success whatever the code.
Exit_success(code) ==
    /\ mainpc' = "exit"
    /\ exit_code' = Some(0)

\* sys.exit(code), or an exception nothing catches (status 1).
Exit(code) ==
    /\ mainpc' = "exit"
    /\ exit_code' = Some(code)

\* load_profile of a profile that has no file: lines 881-882, 536-539.
LoadProfile ==
    /\ mainpc = "L881"
    /\ IF args.profile # None
       THEN Exit(2)
       ELSE mainpc' = "L895" /\ exit_code' = exit_code
    /\ UNCHANGED <<inputVars, diskVars, callVars, args, stdin, session_state,
                   pending, results, all_agreed, latest_spec, workerVars,
                   ledgerVars>>

\* The roster of --models, refused when empty: lines 895-898.
ParseModels ==
    /\ mainpc = "L895"
    /\ IF Len(models) = 0
       THEN Exit(1)
       ELSE mainpc' = "L904" /\ exit_code' = exit_code
    /\ UNCHANGED <<inputVars, diskVars, callVars, args, stdin, session_state,
                   pending, results, all_agreed, latest_spec, workerVars,
                   ledgerVars>>

\* The worker threads and the ledger entries of a roster, before the round.
Redimension(roster) ==
    /\ pc' = [i \in 1..Len(roster) |-> "idle"]
    /\ attempt' = [i \in 1..Len(roster) |-> 0]
    /\ last_error' = [i \in 1..Len(roster) |-> None]
    /\ cur' = [i \in 1..Len(roster) |-> None]
    /\ reg' = [i \in 1..Len(roster) |-> 0]
    /\ ref' = [i \in 1..Len(roster) |-> 0]
    /\ io' = [i \in 1..Len(roster) |-> <<>>]
    /\ calls' = [i \in 1..Len(roster) |-> <<>>]
    /\ resp' = [i \in 1..Len(roster) |-> None]
    /\ heap' = [d \in 1..Len(roster) |-> ZeroEntry]

\* A resume that runs the round under the --round of the command line.
Restored_keeps_round(a, st) ==
    [a EXCEPT !.focus = IF ErrTruthy(st.focus) THEN st.focus ELSE @,
              !.persona = IF ErrTruthy(st.persona) THEN st.persona ELSE @,
              !.preserve_intent = IF st.preserve_intent
                                  THEN st.preserve_intent ELSE @]

\* A resume on which the options of the command line win over the record.
Restored_caller_first(a, st) ==
    [a EXCEPT !.round = st.round,
              !.focus = IF ErrTruthy(@) THEN @ ELSE st.focus,
              !.persona = IF ErrTruthy(@) THEN @ ELSE st.persona,
              !.preserve_intent = IF @ THEN @ ELSE st.preserve_intent]

\* What --resume makes of the command line, lines 910-917.
Restored(a, st) ==
    [a EXCEPT !.round = st.round,
              !.focus = IF ErrTruthy(st.focus) THEN st.focus ELSE @,
              !.persona = IF ErrTruthy(st.persona) THEN st.persona ELSE @,
              !.preserve_intent = IF st.preserve_intent
                                  THEN st.preserve_intent ELSE @]

\* --resume: lines 905-922.  A missing file is FileNotFoundError and
\* sys.exit(2); a file that is not JSON is a JSONDecodeError that nothing
\* catches.
Resume ==
    /\ mainpc = "L904"
    /\ args.resume # None
    /\ LET id == args.resume[1]
       IN  IF id \notin DOMAIN sessions
           THEN /\ Exit(2)
                /\ UNCHANGED <<inputVars, args, session_state, workerVars,
                               heap>>
           ELSE IF ~sessions[id].valid
           THEN /\ Exit(1)
                /\ UNCHANGED <<inputVars, args, session_state, workerVars,
                               heap>>
           ELSE LET st == Loads(sessions[id].body)
                IN  /\ session_state' = Some(st)
                    /\ spec' = st.spec
                    /\ args' = Restored(args, st)
                    /\ models' = st.models
                    /\ completion' \in SessionCompletions(st.models)
                    /\ Redimension(st.models)
                    /\ mainpc' = "L931"
                    /\ exit_code' = exit_code
    /\ UNCHANGED <<diskVars, callVars, stdin, pending, results, all_agreed,
                   latest_spec, cost_tracker>>

\* spec = sys.stdin.read().strip(), refused when empty: lines 925-928.
ReadStdin ==
    /\ mainpc = "L904"
    /\ args.resume = None
    /\ IF Strip(stdin) = <<>>
       THEN Exit(1) /\ spec' = spec
       ELSE /\ spec' = Strip(stdin)
            /\ mainpc' = "L931"
            /\ exit_code' = exit_code
    /\ UNCHANGED <<models, completion, diskVars, callVars, args, stdin,
                   session_state, pending, results, all_agreed, latest_spec,
                   workerVars, ledgerVars>>

\* --session without --resume: lines 931-943.  The clock is read for
\* created_at and again by save().
CreateSession ==
    /\ mainpc = "L931"
    /\ IF args.session # None /\ session_state = None
       THEN LET st == SessionState(args.session[1], spec, args.round, models,
                                   args.focus, args.persona,
                                   args.preserve_intent, now)
            IN  /\ session_state' = Some(Stamped(st, now + 1))
                /\ sessions' = Written(st, now + 1)
                /\ now' = now + 2
       ELSE UNCHANGED <<session_state, sessions, now>>
    /\ mainpc' = "start"
    /\ UNCHANGED <<inputVars, checkpoints, callVars, args, stdin, exit_code,
                   pending, results, all_agreed, latest_spec, workerVars,
                   ledgerVars>>

\* save_checkpoint(spec, args.round, session_id): lines 964-966.
SaveCheckpoint ==
    /\ mainpc = "L963"
    /\ LET session_id == IF session_state # None
                         THEN Some(session_state[1].session_id)
                         ELSE args.session
       IN  IF ErrTruthy(session_id) \/ ErrTruthy(args.session)
           THEN checkpoints' = Checkpointed(spec, args.round, session_id)
           ELSE checkpoints' = checkpoints
    /\ mainpc' = "L976"
    /\ UNCHANGED <<inputVars, sessions, now, procVars, callVars, pending,
                   results, all_agreed, latest_spec, workerVars, ledgerVars>>

\* A persist that stores the options the round ran with.
UpdateSession_stores_options ==
    /\ mainpc = "L976"
    /\ IF session_state # None
       THEN LET st == [session_state[1] EXCEPT
                          !.spec = latest_spec,
                          !.round = args.round + 1,
                          !.focus = args.focus,
                          !.persona = args.persona,
                          !.preserve_intent = args.preserve_intent,
                          !.history = Append(@, HistoryEntry(args.round,
                                                             all_agreed,
                                                             results))]
            IN  /\ session_state' = Some(Stamped(st, now))
                /\ sessions' = Written(st, now)
                /\ now' = now + 1
       ELSE UNCHANGED <<session_state, sessions, now>>
    /\ mainpc' = "done"
    /\ UNCHANGED <<inputVars, checkpoints, callVars, args, stdin, exit_code,
                   pending, results, all_agreed, latest_spec, workerVars,
                   ledgerVars>>

\* A persist that is skipped when no critic answered.
UpdateSession_needs_answer ==
    /\ mainpc = "L976"
    /\ IF session_state # None
          /\ \E j \in 1..Len(results) : results[j].error = None
       THEN LET st == [session_state[1] EXCEPT
                          !.spec = latest_spec,
                          !.round = args.round + 1,
                          !.history = Append(@, HistoryEntry(args.round,
                                                             all_agreed,
                                                             results))]
            IN  /\ session_state' = Some(Stamped(st, now))
                /\ sessions' = Written(st, now)
                /\ now' = now + 1
       ELSE UNCHANGED <<session_state, sessions, now>>
    /\ mainpc' = "done"
    /\ UNCHANGED <<inputVars, checkpoints, callVars, args, stdin, exit_code,
                   pending, results, all_agreed, latest_spec, workerVars,
                   ledgerVars>>

\* The session after the round: lines 976-984.
UpdateSession ==
    /\ mainpc = "L976"
    /\ IF session_state # None
       THEN LET st == [session_state[1] EXCEPT
                          !.spec = latest_spec,
                          !.round = args.round + 1,
                          !.history = Append(@, HistoryEntry(args.round,
                                                             all_agreed,
                                                             results))]
            IN  /\ session_state' = Some(Stamped(st, now))
                /\ sessions' = Written(st, now)
                /\ now' = now + 1
       ELSE UNCHANGED <<session_state, sessions, now>>
    /\ mainpc' = "done"
    /\ UNCHANGED <<inputVars, checkpoints, callVars, args, stdin, exit_code,
                   pending, results, all_agreed, latest_spec, workerVars,
                   ledgerVars>>

\* The next run of main, a new process: the globals of the module are
\* initialised again, the files are those the earlier runs left.
NewProcess ==
    /\ mainpc \in {"done", "exit"}
    /\ now < MaxClock
    /\ \E inv \in {x \in Invocations : Runnable(x)} :
           /\ args' = inv.args
           /\ stdin' = inv.stdin
           /\ models' = inv.models
           /\ completion' = inv.completion
           /\ Redimension(inv.models)
    /\ spec' = <<>>
    /\ mainpc' = "L881"
    /\ pending' = {}
    /\ results' = <<>>
    /\ all_agreed' = FALSE
    /\ latest_spec' = <<>>
    /\ cost_tracker' = CostTracker
    /\ session_state' = None
    /\ exit_code' = None
    /\ UNCHANGED <<diskVars, callVars>>

NextMain ==
    \/ LoadProfile
    \/ ParseModels
    \/ Resume
    \/ ReadStdin
    \/ CreateSession
    \/ Submit
    \/ \E i \in Threads : Worker(i)
    \/ \E i \in Threads : Collect(i)
    \/ Join
    \/ Aggregate
    \/ SaveCheckpoint
    \/ UpdateSession
    \/ NewProcess

SpecMain == InitMain /\ [][NextMain]_vars

(***************************************************************************)
(* main in a process that may be stopped before it returns.                *)
(***************************************************************************)
\* The session files when the process stops inside save(): write_text has
\* opened the file of id, line 470, and not all of the text is in it.
Truncated(id) ==
    [f \in DOMAIN sessions \cup {id} |->
         IF f = id THEN CorruptFile ELSE sessions[f]]

\* The process is stopped by a signal or a power cut anywhere in main,
\* lines 881-984: its threads and its memory are gone, the files stay as
\* they were written.  A stop at the save() of line 942 or of line 984 may
\* fall inside the write.  The status is that of a process killed by
\* signal 9.
Stop ==
    /\ mainpc \notin {"done", "exit"}
    /\ \/ sessions' = sessions
       \/ /\ mainpc = "L931"
          /\ args.session # None
          /\ session_state = None
          /\ sessions' = Truncated(args.session[1])
       \/ /\ mainpc = "L976"
          /\ session_state # None
          /\ sessions' = Truncated(session_state[1].session_id)
    /\ mainpc' = "exit"
    /\ exit_code' = Some(-9)
    /\ Redimension(models)
    /\ pending' = {}
    /\ results' = <<>>
    /\ all_agreed' = FALSE
    /\ latest_spec' = <<>>
    /\ cost_tracker' = CostTracker
    /\ session_state' = None
    /\ UNCHANGED <<inputVars, checkpoints, now, callVars, args, stdin>>

\* The command lines of the processes that may be stopped: those without
\* --focus, --persona, --preserve-intent and --profile.
DefaultOptions ==
    /\ args.profile = None
    /\ args.focus = DefaultConfig.focus
    /\ args.persona = DefaultConfig.persona
    /\ args.preserve_intent = DefaultConfig.preserve_intent

InitStop == InitMain /\ DefaultOptions

NextStop ==
    \/ NextMain /\ (mainpc' = "L881" => DefaultOptions')
    \/ Stop

SpecStop == InitStop /\ [][NextStop]_vars

(***************************************************************************)
(* extract_spec called on its own, on every text of at most MaxLen tokens. *)
(***************************************************************************)
Tokens == {"[SPEC]", "[/SPEC]", " ", "a"}

Texts == UNION {[1..n -> Tokens] : n \in 0..MaxLen}

InitExtract ==
    /\ text \in Texts
    /\ span = None
    /\ listing = <<>>
    /\ mainpc = "extract_spec"
    /\ models = <<>>
    /\ spec = <<>>
    /\ completion = <<>>
    /\ pending = {}
    /\ results = <<>>
    /\ all_agreed = FALSE
    /\ latest_spec = <<>>
    /\ pc = <<>>
    /\ attempt = <<>>
    /\ last_error = <<>>
    /\ cur = <<>>
    /\ reg = <<>>
    /\ ref = <<>>
    /\ io = <<>>
    /\ calls = <<>>
    /\ resp = <<>>
    /\ cost_tracker = CostTracker
    /\ heap = <<>>
    /\ args = NoArgs
    /\ stdin = <<>>
    /\ session_state = None
    /\ exit_code = None
    /\ sessions = InitialSessions
    /\ checkpoints = {}
    /\ now = 1

ExtractSpec ==
    /\ mainpc = "extract_spec"
    /\ span' = extract_spec(text)
    /\ mainpc' = "extracted"
    /\ UNCHANGED <<inputVars, diskVars, procVars, text, listing, pending,
                   results, all_agreed, latest_spec, workerVars, ledgerVars>>

NextExtract == ExtractSpec

SpecExtract == InitExtract /\ [][NextExtract]_vars

(***************************************************************************)
(* SessionState.save and SessionState.list_sessions on the session files,  *)
(* as the runs of main on one configuration directory call them.           *)
(***************************************************************************)
ListedIds == {"s1", "s2", "s3"}

\* datetime.isoformat() of the clock reading t, a tick being half a second:
\* the seconds in two digits, the fraction only when it is not zero.
IsoFormat(t) ==
    LET sec == t \div 2
    IN  <<sec \div 10, sec % 10>> \o (IF t % 2 = 1 THEN <<5>> ELSE <<>>)

\* a < b of two str, character by character.
RECURSIVE StrLess(_, _)
StrLess(a, b) ==
    IF b = <<>> THEN FALSE
    ELSE IF a = <<>> THEN TRUE
    ELSE IF Head(a) # Head(b) THEN Head(a) < Head(b)
    ELSE StrLess(Tail(a), Tail(b))

\* A key under which the oldest entry comes first.
Outranks_oldest_first(e, x) ==
    StrLess(IsoFormat(e.updated_at), IsoFormat(x.updated_at))

\* e comes before x: key=updated_at, reverse=True, line 496.
Outranks(e, x) ==
    StrLess(IsoFormat(x.updated_at), IsoFormat(e.updated_at))

\* One step of sorted(), which is stable.
RECURSIVE InsertDesc(_, _)
InsertDesc(s, e) ==
    IF s = <<>> THEN <<e>>
    ELSE IF Outranks(e, Head(s)) THEN <<e>> \o s
    ELSE <<Head(s)>> \o InsertDesc(Tail(s), e)

RECURSIVE SortDesc(_)
SortDesc(s) ==
    IF s = <<>> THEN <<>>
    ELSE InsertDesc(SortDesc(SubSeq(s, 1, Len(s) - 1)), s[Len(s)])

\* The entries of the files in the order glob yields them; a file that
\* cannot be parsed is passed over, lines 486-495.
RECURSIVE Entries(_, _)
Entries(files, order) ==
    IF order = <<>> THEN <<>>
    ELSE (IF files[Head(order)].valid
          THEN <<[id |-> Member(files[Head(order)].body, "session_id"),
                  round |-> Member(files[Head(order)].body, "round"),
                  updated_at |-> Member(files[Head(order)].body,
                                        "updated_at")]>>
          ELSE <<>>) \o Entries(files, Tail(order))

\* The orders in which glob can yield the files.
GlobOrders(files) ==
    {o \in [1..Cardinality(DOMAIN files) -> DOMAIN files] :
         \A j, k \in DOMAIN o : j # k => o[j] # o[k]}

InitList ==
    /\ mainpc = "L834"
    /\ listing = <<>>
    /\ sessions = InitialSessions
    /\ checkpoints = {}
    /\ now = 1
    /\ text = <<>>
    /\ span = None
    /\ models = <<>>
    /\ spec = <<>>
    /\ completion = <<>>
    /\ pending = {}
    /\ results = <<>>
    /\ all_agreed = FALSE
    /\ latest_spec = <<>>
    /\ pc = <<>>
    /\ attempt = <<>>
    /\ last_error = <<>>
    /\ cur = <<>>
    /\ reg = <<>>
    /\ ref = <<>>
    /\ io = <<>>
    /\ calls = <<>>
    /\ resp = <<>>
    /\ cost_tracker = CostTracker
    /\ heap = <<>>
    /\ args = NoArgs
    /\ stdin = <<>>
    /\ session_state = None
    /\ exit_code = None

\* save() of a SessionState: of a new one, made at round r as at lines
\* 932-942, or of the stored one after a round, as at lines 977-984.
Save(id) ==
    /\ now < MaxStamp
    /\ IF HasFile(sessions, id)
       THEN LET st == [Loads(sessions[id].body) EXCEPT !.round = @ + 1]
            IN  /\ sessions' = Written(st, now)
                /\ now' = now + 1
       ELSE \E r \in {1, 2} :
                LET st == SessionState(id, <<"X">>, r, <<KnownModel>>, None,
                                       None, FALSE, now)
                IN  /\ sessions' = Written(st, now + 1)
                    /\ now' = now + 2
    /\ mainpc' = "L834"
    /\ listing' = <<>>
    /\ UNCHANGED <<inputVars, checkpoints, procVars, text, span, pending,
                   results, all_agreed, latest_spec, workerVars, ledgerVars>>

\* `debate.py sessions`: lines 834-835 and 481-496.
ListSessions ==
    /\ mainpc = "L834"
    /\ \E order \in GlobOrders(sessions) :
           listing' = SortDesc(Entries(sessions, order))
    /\ mainpc' = "listed"
    /\ UNCHANGED <<inputVars, diskVars, procVars, text, span, pending,
                   results, all_agreed, latest_spec, workerVars, ledgerVars>>

NextList ==
    \/ \E id \in ListedIds : Save(id)
    \/ ListSessions

SpecList == InitList /\ [][NextList]_vars

(***************************************************************************)
(* Vocabulary of the properties.                                           *)
(***************************************************************************)
Joined == mainpc \in {"joined", "L963", "L976", "done"}
Returned(i) == pc[i] = "returned"
Response(i) == resp[i][1]
ErrorFree(r) == r.error = None
Exhausts(i) == IsRaise(completion[i][Len(completion[i])])
Requests(i) == Cardinality({j \in 1..Len(io[i]) : io[i][j][1] = "completion"})
Sleeps(i) == SelectSeq(io[i], LAMBDA e : e[1] = "sleep")

RECURSIVE SumOver(_, _)
SumOver(rs, field) ==
    IF rs = <<>> THEN 0
    ELSE (IF ErrorFree(Head(rs)) THEN Head(rs)[field] ELSE 0)
         + SumOver(Tail(rs), field)

Subtotal(m) == heap[cost_tracker.by_model[m]]

RECURSIVE SumSubtotals(_, _)
SumSubtotals(ms, field) ==
    IF ms = {} THEN 0
    ELSE LET m == CHOOSE x \in ms : TRUE
         IN  Subtotal(m)[field] + SumSubtotals(ms \ {m}, field)

(***************************************************************************)
(* C1: when call_models_parallel returns, it returns as many responses as  *)
(* the roster has entries, and the i-th response is the one of the i-th    *)
(* roster entry's invocation.                                              *)
(***************************************************************************)
C1_RosterOrder ==
    Joined => /\ Len(results) = Len(models)
              /\ \A i \in Threads : results[i] = Response(i)

(***************************************************************************)
(* C2: after the round, the next artifact is the extracted artifact of the *)
(* first roster entry, in declaration order, whose response has a          *)
(* non-empty one, and the dispatched artifact when there is none.          *)
(***************************************************************************)
FirstDeclaredArtifact ==
    LET offering == {i \in Threads : Truthy(Response(i).spec)}
    IN  IF offering = {} THEN spec
        ELSE Response(CHOOSE i \in offering :
                          \A k \in offering : i <= k).spec[1]

C2_NextArtifactDeclaredOrder ==
    mainpc = "done" => latest_spec = FirstDeclaredArtifact

(***************************************************************************)
(* C3: the round converges iff at least one response has no error and      *)
(* every response without error agreed.                                    *)
(***************************************************************************)
C3_ConvergedIff ==
    mainpc = "done" =>
        (all_agreed <=>
            /\ \E j \in 1..Len(results) : ErrorFree(results[j])
            /\ \A j \in 1..Len(results) :
                   ErrorFree(results[j]) => results[j].agreed)

(***************************************************************************)
(* C4: an invocation makes at most MAX_RETRIES completion requests; when   *)
(* all of them fail it returns an error response and nothing escapes, so   *)
(* the round is not aborted and returns the response of every invocation.  *)
(***************************************************************************)
C4_BoundedRetryNoEscape ==
    /\ mainpc # "aborted"
    /\ \A i \in Threads :
           /\ Requests(i) <= MAX_RETRIES
           /\ pc[i] # "raised"
           /\ (Returned(i) /\ Exhausts(i)) =>
                  /\ Requests(i) = MAX_RETRIES
                  /\ Response(i).error = Some(completion[i][MAX_RETRIES].raises)
    /\ Joined => \A i \in Threads :
                     \E j \in 1..Len(results) : results[j] = Response(i)

C4_Witness ==
    /\ mainpc = "done"
    /\ Len(models) = 2
    /\ Exhausts(1)
    /\ ~Exhausts(2)
    /\ \E j \in 1..Len(results) :
           results[j] = Response(2) /\ ErrorFree(results[j])
    /\ \E j \in 1..Len(results) :
           results[j] = Response(1) /\ ~ErrorFree(results[j])

(***************************************************************************)
(* C5: the requests and delays of an invocation alternate; the delay after *)
(* the failed request k is RETRY_BASE_DELAY * 2^k and comes before request *)
(* k + 1; there is no delay after an answered request nor after the last   *)
(* failed one.  Two failures then an answer give the delays BASE, 2*BASE   *)
(* and a response without error.                                           *)
(***************************************************************************)
C5_BackoffSchedule ==
    \A i \in Threads :
        /\ \A j \in 1..Len(io[i]) :
               IF j % 2 = 1
               THEN io[i][j] = <<"completion", (j - 1) \div 2>>
               ELSE /\ io[i][j] = <<"sleep",
                                    RETRY_BASE_DELAY * Pow2((j \div 2) - 1)>>
                    /\ IsRaise(completion[i][j \div 2])
                    /\ (j \div 2) - 1 < MAX_RETRIES - 1
        /\ pc[i] = "call" => Len(io[i]) = 2 * attempt[i]
        /\ Returned(i) => Len(io[i]) = 2 * Len(completion[i]) - 1
        /\ (Returned(i) /\ Len(completion[i]) = 3 /\ ~Exhausts(i)) =>
               /\ Sleeps(i) = <<<<"sleep", RETRY_BASE_DELAY>>,
                                <<"sleep", 2 * RETRY_BASE_DELAY>>>>
               /\ Response(i).error = None

C5_Witness ==
    \E i \in Threads :
        /\ Returned(i)
        /\ Len(completion[i]) = 3
        /\ ~Exhausts(i)
        /\ Len(Sleeps(i)) = 2
        /\ ErrorFree(Response(i))

(***************************************************************************)
(* C6: after the join the ledger's cumulative input and output tokens are  *)
(* the sums of the tokens of the round's responses without error.          *)
(***************************************************************************)
C6_NoLostUpdate ==
    Joined =>
        /\ cost_tracker.total_input_tokens = SumOver(results, "input_tokens")
        /\ cost_tracker.total_output_tokens = SumOver(results, "output_tokens")

(***************************************************************************)
(* C7: when no add call is in progress, each cumulative total equals the   *)
(* sum of the per-critic subtotals.                                        *)
(***************************************************************************)
C7_TotalIsSumOfSubtotals ==
    (\A i \in Threads : pc[i] \notin AddPcs) =>
        LET ms == DOMAIN cost_tracker.by_model
        IN  /\ cost_tracker.total_input_tokens
                   = SumSubtotals(ms, "input_tokens")
            /\ cost_tracker.total_output_tokens
                   = SumSubtotals(ms, "output_tokens")
            /\ cost_tracker.total_cost = SumSubtotals(ms, "cost")

(***************************************************************************)
(* C8: no step decreases a cumulative total or a per-critic subtotal, and  *)
(* a per-critic entry that exists keeps existing.                          *)
(***************************************************************************)
C8_AppendOnly ==
    [][ /\ cost_tracker'.total_input_tokens >= cost_tracker.total_input_tokens
        /\ cost_tracker'.total_output_tokens
               >= cost_tracker.total_output_tokens
        /\ \A m \in DOMAIN cost_tracker.by_model :
               /\ m \in DOMAIN cost_tracker'.by_model
               /\ heap'[cost_tracker'.by_model[m]].input_tokens
                      >= Subtotal(m).input_tokens
               /\ heap'[cost_tracker'.by_model[m]].output_tokens
                      >= Subtotal(m).output_tokens ]_vars

(***************************************************************************)
(* C9: a returned response with error set has agreed false, no extracted   *)
(* artifact, zero tokens and zero cost; a response built from an answered  *)
(* request has no error.                                                   *)
(***************************************************************************)
C9_ErrorResponseShape ==
    \A i \in Threads :
        Returned(i) =>
            /\ Response(i).error # None =>
                   /\ Response(i).agreed = FALSE
                   /\ Response(i).spec = None
                   /\ Response(i).input_tokens = 0
                   /\ Response(i).output_tokens = 0
                   /\ Response(i).cost = 0
            /\ ~Exhausts(i) => Response(i).error = None

C9_Witness ==
    \E i, k \in Threads :
        /\ Returned(i) /\ Exhausts(i) /\ Response(i).error = Some("")
        /\ Returned(k) /\ Len(completion[k]) = 3 /\ ~Exhausts(k)
        /\ Response(k).agreed

(***************************************************************************)
(* C10: an invocation whose requests all fail never enters                 *)
(* CostTracker.add and none of its steps changes the ledger; a round in    *)
(* which every invocation fails leaves the ledger as it was constructed.   *)
(***************************************************************************)
C10_FailedInvocationLeavesLedger ==
    /\ [](\A i \in Threads :
              /\ Exhausts(i) => pc[i] \notin AddPcs
              /\ pc[i] \in AddPcs => ~IsRaise(completion[i][attempt[i] + 1]))
    /\ []((\A i \in Threads : Exhausts(i)) =>
              /\ cost_tracker = CostTracker
              /\ \A d \in Threads : heap[d] = ZeroEntry)
    /\ [][\A i \in Threads :
              (Exhausts(i) /\ pc'[i] # pc[i]) =>
                  UNCHANGED <<cost_tracker, heap>>]_vars

C10_Witness ==
    /\ Len(models) = 1
    /\ Returned(1)
    /\ Exhausts(1)
    /\ Requests(1) = MAX_RETRIES
    /\ cost_tracker = CostTracker
(***************************************************************************)
(* C11: a completion that returns a text with neither the agreement marker *)
(* nor a delimited artifact is a success: the failure path (backoff or     *)
(* exhaustion) is entered only after completion() raised, the invocation   *)
(* that got the text makes no further request, and its response has no     *)
(* error, agreed false and no extracted artifact.                          *)
(***************************************************************************)
LastOutcome(i) == completion[i][Len(completion[i])]

First(t, tok) ==
    CHOOSE j \in 1..Len(t) : t[j] = tok /\ \A k \in 1..(j - 1) : t[k] # tok

\* v is u without its leading and trailing whitespace.
IsTrimOf(v, u) ==
    \E a \in 1..(Len(u) + 1), b \in 0..Len(u) :
        /\ v = SubSeq(u, a, b)
        /\ \A k \in 1..(a - 1) : u[k] = " "
        /\ \A k \in (b + 1)..Len(u) : u[k] = " "
        /\ v # <<>> => (v[1] # " " /\ v[Len(v)] # " ")

C20_ExtractBetweenFirstMarkers ==
    mainpc = "extracted" =>
        /\ (~Contains(text, "[SPEC]") \/ ~Contains(text, "[/SPEC]"))
               => span = None
        /\ (/\ Contains(text, "[SPEC]")
            /\ Contains(text, "[/SPEC]")
            /\ First(text, "[SPEC]") < First(text, "[/SPEC]"))
               => /\ span # None
                  /\ IsTrimOf(span[1],
                              SubSeq(text, First(text, "[SPEC]") + 1,
                                     First(text, "[/SPEC]") - 1))

C20_Witness ==
    /\ mainpc = "extracted"
    /\ text = <<"[SPEC]", " ", "a", " ", "[/SPEC]">>
    /\ span = Some(<<"a">>)

(***************************************************************************)
(* C19: a round over an empty roster does not raise: call_models_parallel  *)
(* returns no response and the aggregation yields all_agreed false.        *)
(***************************************************************************)
C19_EmptyRosterCompletes ==
    Len(models) = 0 =>
        /\ mainpc # "raised"
        /\ mainpc = "done" => (results = <<>> /\ all_agreed = FALSE)

(***************************************************************************)
(* Vocabulary of the session properties.                                   *)
(***************************************************************************)
HasRecord(files, id) == id \in DOMAIN files /\ files[id].valid
Stored(files, id) == Loads(files[id].body)
IsPrefix(a, b) == Len(a) <= Len(b) /\ SubSeq(b, 1, Len(a)) = a
\* The id of the session of the running process.
SessionId == session_state[1].session_id
\* The step is a save() of the record of id.
Writes(id) == HasRecord(sessions', id) /\ sessions'[id] # sessions[id]
\* The step is the persist that follows a round.
Persists == mainpc = "L976" /\ session_state # None

(***************************************************************************)
(* C12: whatever is done with one session id, every history entry of the   *)
(* stored record is still there, unchanged and at the same index, after    *)
(* every later write of the record.                                        *)
(***************************************************************************)
C12_HistoryAppendOnly ==
    [][\A id \in DOMAIN sessions :
           (HasRecord(sessions, id) /\ HasRecord(sessions', id))
               => IsPrefix(Stored(sessions, id).history,
                           Stored(sessions', id).history)]_vars

(***************************************************************************)
(* C13: the stored round of a session never decreases; the record written  *)
(* after round N has round N + 1, which is one more than the round stored  *)
(* before; a resume dispatches the stored round.                           *)
(***************************************************************************)
C13_RoundMonotone ==
    [][/\ \A id \in DOMAIN sessions :
              (HasRecord(sessions, id) /\ HasRecord(sessions', id))
                  => Stored(sessions', id).round >= Stored(sessions, id).round
       /\ Persists
              => /\ Stored(sessions', SessionId).round = args.round + 1
                 /\ Stored(sessions', SessionId).round
                        = Stored(sessions, SessionId).round + 1
       /\ (mainpc = "L904" /\ mainpc' = "L931" /\ args.resume # None)
              => args'.round = Stored(sessions, args.resume[1]).round]_vars

(***************************************************************************)
(* C14: what SessionState.load returns is the record save() last wrote.    *)
(* After a round has been persisted the stored record has the dispatched   *)
(* round plus 1, the next artifact the round selected and the roster of    *)
(* the round; for a session created at round 1 that is round 2 and a       *)
(* history of length 1.  A resume starts from exactly that record.         *)
(***************************************************************************)
C14_SessionRoundTrip ==
    /\ (mainpc = "done" /\ session_state # None)
           => /\ HasRecord(sessions, SessionId)
              /\ Stored(sessions, SessionId) = session_state[1]
              /\ Stored(sessions, SessionId).round = args.round + 1
              /\ Stored(sessions, SessionId).spec = LatestSpec(results, spec)
              /\ Stored(sessions, SessionId).models = models
              /\ (args.resume = None /\ args.round = 1)
                     => /\ Stored(sessions, SessionId).round = 2
                        /\ Len(Stored(sessions, SessionId).history) = 1
    /\ (mainpc = "L931" /\ args.resume # None)
           => /\ session_state = Some(Stored(sessions, args.resume[1]))
              /\ sessions[args.resume[1]].body = Dumps(session_state[1])

C14_Witness ==
    /\ mainpc = "L931"
    /\ args.resume = Some("s1")
    /\ session_state # None
    /\ session_state[1].round = 2
    /\ session_state[1].spec = <<"V2">>
    /\ session_state[1].models = <<KnownModel, UnknownModel>>
    /\ Len(session_state[1].history) = 1

(***************************************************************************)
(* C15: a persist appends exactly one history entry, which holds the round *)
(* that was dispatched, its all_agreed and one (model, agreed, error) per  *)
(* response; no other write of a session record changes the length of the  *)
(* stored history.                                                         *)
(***************************************************************************)
C15_OneEntryPerPersist ==
    [][/\ Persists
              => /\ Stored(sessions', SessionId).history
                        = Append(Stored(sessions, SessionId).history,
                                 HistoryEntry(args.round, all_agreed, results))
                 /\ Len(results) = Len(models)
       /\ \A id \in DOMAIN sessions :
              (~Persists /\ HasRecord(sessions, id) /\ Writes(id))
                  => Len(Stored(sessions', id).history)
                         = Len(Stored(sessions, id).history)]_vars

(***************************************************************************)
(* C16: a round in which every critic exhausts its retries completes with  *)
(* all_agreed false and the artifact unchanged; its persist stores the     *)
(* same artifact, the round plus 1 and one more history entry, and the     *)
(* record it leaves can be loaded for the next round.                      *)
(***************************************************************************)
AllExhausted == Len(models) > 0 /\ \A i \in Threads : Exhausts(i)

C16_AllFailedRoundAdvances ==
    [][(Persists /\ AllExhausted)
           => /\ mainpc' = "done"
              /\ all_agreed = FALSE
              /\ latest_spec = spec
              /\ HasRecord(sessions', SessionId)
              /\ Stored(sessions', SessionId).spec = spec
              /\ Stored(sessions', SessionId).round
                     = Stored(sessions, SessionId).round + 1
              /\ Len(Stored(sessions', SessionId).history)
                     = Len(Stored(sessions, SessionId).history) + 1]_vars

\* The round after a round in which every critic failed has been resumed.
C16_Witness ==
    /\ mainpc = "start"
    /\ args.resume = Some("s1")
    /\ args.round = 2
    /\ Len(session_state[1].history) = 1
    /\ \A j \in 1..Len(session_state[1].history[1].models) :
           session_state[1].history[1].models[j].error # None

(***************************************************************************)
(* C17: a resume takes the artifact, the round and the roster from the     *)
(* stored record; focus, persona and preserve_intent are the record's      *)
(* where the record has them set (a text that is not empty, a flag that is *)
(* true) and the command line's where it has not; these are the values in  *)
(* force until the round has been persisted.                               *)
(***************************************************************************)
IsSet(option) == option \notin {None, Some("")}

C17_ResumeSemantics ==
    [][/\ (mainpc = "L904" /\ mainpc' = "L931" /\ args.resume # None)
              => LET st == Stored(sessions, args.resume[1])
                 IN  /\ spec' = st.spec
                     /\ args'.round = st.round
                     /\ models' = st.models
                     /\ args'.focus = IF IsSet(st.focus) THEN st.focus
                                      ELSE args.focus
                     /\ args'.persona = IF IsSet(st.persona) THEN st.persona
                                        ELSE args.persona
                     /\ args'.preserve_intent
                            = IF st.preserve_intent THEN TRUE
                              ELSE args.preserve_intent
       /\ mainpc \in {"L931", "start", "as_completed", "joined", "L963",
                      "L976"}
              => (args' = args /\ models' = models /\ spec' = spec)]_vars

\* A resumed round that ran with the focus of the command line, the record
\* having none, and with the roster of the record.
C17_Witness ==
    /\ mainpc = "done"
    /\ args.resume = Some("s1")
    /\ session_state[1].focus = None
    /\ args.focus = Some("risks")
    /\ models = <<KnownModel, UnknownModel>>
    /\ args.round = 2

(***************************************************************************)
(* C18: a resume of an id without a record, an unknown profile and a       *)
(* record that cannot be parsed end the process with a non-zero status     *)
(* before any critic is dispatched; the process has written no session     *)
(* record and no checkpoint and the ledger is as it was.                   *)
(***************************************************************************)
Preamble == {"L881", "L895", "L904"}

C18_FatalConfigErrors ==
    [][/\ mainpc' = "exit"
              => /\ mainpc \in Preamble \cup {"exit"}
                 /\ exit_code' \in {Some(1), Some(2)}
                 /\ \A i \in DOMAIN pc' : pc'[i] = "idle" /\ io'[i] = <<>>
                 /\ results' = <<>>
       /\ mainpc \in Preamble \cup {"exit"}
              => /\ UNCHANGED <<sessions, checkpoints>>
                 /\ cost_tracker = CostTracker
                 /\ cost_tracker' = CostTracker
       /\ (mainpc = "L881" /\ args.profile # None) => mainpc' = "exit"
       /\ (/\ mainpc = "L904"
           /\ args.resume # None
           /\ ~HasRecord(sessions, args.resume[1])) => mainpc' = "exit"]_vars

C18_Witness ==
    /\ mainpc = "exit"
    /\ args.resume = Some("s2")
    /\ exit_code = Some(2)
    /\ HasRecord(sessions, "s1")

(***************************************************************************)
(* C21: when the first [/SPEC] of a text precedes its first [SPEC],        *)
(* extract_spec returns None, the value it returns when a marker is        *)
(* missing, and never a text.                                              *)
(***************************************************************************)
C21_ReversedMarkersFailClosed ==
    (/\ mainpc = "extracted"
     /\ Contains(text, "[SPEC]")
     /\ Contains(text, "[/SPEC]")
     /\ First(text, "[/SPEC]") < First(text, "[SPEC]"))
        => span = None

(***************************************************************************)
(* C22: the outcome of a round is a function of the roster, the artifact   *)
(* and what each critic's attempts do, whatever the order in which the     *)
(* invocations finish: the response list in roster order, all_agreed and   *)
(* the next artifact computed from it, and the history entry persisted.    *)
(***************************************************************************)
\* The response of critic i as its script alone determines it.
Determined(i) ==
    LET o == LastOutcome(i)
    IN  IF IsRaise(o)
        THEN ErrorResponse(models[i], Some(o.raises))
        ELSE LET itok == IF o.usage # None THEN o.usage[1].prompt_tokens
                         ELSE 0
                 otok == IF o.usage # None
                         THEN o.usage[1].completion_tokens ELSE 0
             IN  ModelResponse(models[i], o.content,
                               Contains(o.content, "[AGREE]"),
                               extract_spec(o.content), None, itok, otok,
                               AddCost(models[i], itok, otok))

DeterminedResults == [i \in Threads |-> Determined(i)]

C22_Reproducible ==
    mainpc = "done" =>
        /\ results = DeterminedResults
        /\ all_agreed = AllAgreed(DeterminedResults)
        /\ latest_spec = LatestSpec(DeterminedResults, spec)
        /\ session_state # None
               => session_state[1].history[Len(session_state[1].history)]
                      = HistoryEntry(args.round, all_agreed,
                                     DeterminedResults)

(***************************************************************************)
(* C23: list_sessions returns one entry (id, round, updated_at) for each   *)
(* stored session record, with the values of the record, the entries in    *)
(* descending order of updated_at, so that the session written last is     *)
(* the first entry.                                                        *)
(***************************************************************************)
C23_ListedByRecency ==
    mainpc = "listed" =>
        /\ Len(listing)
               = Cardinality({id \in DOMAIN sessions : HasRecord(sessions, id)})
        /\ \A id \in DOMAIN sessions :
               HasRecord(sessions, id)
                   => \E j \in 1..Len(listing) :
                          listing[j]
                              = [id |-> id,
                                 round |-> Stored(sessions, id).round,
                                 updated_at |->
                                     Stored(sessions, id).updated_at]
        /\ \A j, k \in 1..Len(listing) :
               j < k => listing[j].updated_at > listing[k].updated_at
        /\ listing # <<>> => listing[1].updated_at = now - 1

C23_Witness ==
    /\ mainpc = "listed"
    /\ Len(listing) = 3
    /\ listing[1].id = "s1"
    /\ listing[1].round = 2
    /\ listing[1].updated_at = 7
    /\ Stored(sessions, "s1").created_at = 1
    /\ listing[2].id = "s3"
    /\ listing[3].id = "s2"

(***************************************************************************)
(* C24: the response of an invocation that failed on all MAX_RETRIES       *)
(* attempts is not among the responses the aggregation takes for           *)
(* error-free, whatever the message of the failure; all_agreed is decided  *)
(* by the critics that answered alone.                                     *)
(***************************************************************************)
C24_ExhaustedCountsAsError ==
    mainpc = "done" =>
        /\ \A i \in Threads :
               Exhausts(i)
                   => \A j \in 1..Len(Successful(results)) :
                          Successful(results)[j] # Response(i)
        /\ all_agreed <=> /\ \E i \in Threads : ~Exhausts(i)
                          /\ \A i \in Threads :
                                 ~Exhausts(i) => Response(i).agreed

(***************************************************************************)
(* C25: an invocation goes NotStarted, Attempting(0), ..., Succeeded or    *)
(* Failed: attempt 0 follows the submission and attempt k + 1 the failure  *)
(* of attempt k, Failed is entered only by the failure of attempt          *)
(* MAX_RETRIES - 1, after MAX_RETRIES requests that all failed; when every *)
(* completion call and every delay returns, every invocation returns and   *)
(* the round joins.                                                        *)
(***************************************************************************)
Attempting(i, k) == pc[i] = "call" /\ attempt[i] = k
Failed(i) == pc[i] = "exhausted" \/ (Returned(i) /\ Exhausts(i))
Succeeded(i) == pc[i] \in AddPcs \/ (Returned(i) /\ ~Exhausts(i))

C25_Transitions ==
    \A i \in Threads :
        /\ (pc[i] # "call" /\ pc'[i] = "call")
               => \/ pc[i] = "submitted" /\ attempt'[i] = 0
                  \/ /\ pc[i] = "sleep"
                     /\ attempt'[i] = attempt[i] + 1
                     /\ IsRaise(completion[i][attempt[i] + 1])
        /\ pc[i] = "call" => pc'[i] \in {"call", "sleep", "exhausted", "L426r"}
        /\ (pc[i] # "exhausted" /\ pc'[i] = "exhausted")
               => /\ Attempting(i, MAX_RETRIES - 1)
                  /\ \A k \in 1..MAX_RETRIES : IsRaise(completion[i][k])
                  /\ Len(io'[i]) = 2 * MAX_RETRIES - 1
        /\ (Failed(i) \/ Succeeded(i)) => pc'[i] \notin {"call", "sleep"}
        /\ Failed(i) => ~Succeeded(i)'
        /\ Succeeded(i) => ~Failed(i)'

C25_StateMachine ==
    /\ [][C25_Transitions]_vars
    /\ \A i \in 1..MaxRoster :
           <>(i \in Threads => (Returned(i) /\ (Failed(i) \/ Succeeded(i))))
    /\ <>(Len(models) > 0 => Joined)

C25_Witness ==
    /\ mainpc = "joined"
    /\ Len(models) = 2
    /\ Exhausts(1)
    /\ Len(completion[2]) = MAX_RETRIES
    /\ ~Exhausts(2)
    /\ Failed(1)
    /\ Succeeded(2)

(***************************************************************************)
(* C26: a session record or a checkpoint is written only while no          *)
(* invocation is in flight: at creation, before any invocation has been    *)
(* submitted, or after the join, when all invocations of the round have    *)
(* returned; the record written after the join holds the aggregation of    *)
(* the responses of all of them.                                           *)
(***************************************************************************)
InFlight(i) == pc[i] \notin {"idle", "returned"}

C26_WritesOutsideFlight ==
    [][(sessions' # sessions \/ checkpoints' # checkpoints)
           => /\ \A i \in Threads : ~InFlight(i)
              /\ \/ /\ mainpc = "L931"
                    /\ \A i \in Threads : pc[i] = "idle"
                    /\ checkpoints' = checkpoints
                 \/ /\ mainpc \in {"L963", "L976"}
                    /\ \A i \in Threads : Returned(i)
                    /\ Len(results) = Len(models)
                    /\ \A i \in Threads :
                           \E j \in 1..Len(results) : results[j] = Response(i)
              /\ mainpc = "L976"
                     => LET st == Stored(sessions', SessionId)
                        IN  /\ st.spec = LatestSpec(results, spec)
                            /\ st.history[Len(st.history)]
                                   = HistoryEntry(args.round,
                                                  AllAgreed(results),
                                                  results)]_vars

C26_Witness ==
    /\ mainpc = "done"
    /\ Len(models) = 2
    /\ session_state # None
    /\ HasRecord(sessions, SessionId)
    /\ Len(Stored(sessions, SessionId).history[1].models) = 2
    /\ checkpoints # {}

(***************************************************************************)
(* C27: while an invocation waits in a completion call or in a backoff     *)
(* delay, every other invocation that has been submitted and has not       *)
(* returned can take its next step, and a step of one invocation neither   *)
(* needs nor causes a step of another.                                     *)
(***************************************************************************)
Waiting(i) == pc[i] \in {"call", "sleep"}

C27_Independent ==
    \A i, j \in Threads :
        (i # j /\ pc[j] # "idle" /\ pc'[j] # pc[j])
            => /\ pc'[i] = pc[i]
               /\ attempt'[i] = attempt[i]
               /\ io'[i] = io[i]
               /\ resp'[i] = resp[i]

C27_SiblingsNotBlocked ==
    /\ [](\A i, j \in Threads :
             (i # j /\ Waiting(i) /\ pc[j] \notin {"idle", "returned"})
                 => ENABLED Worker(j))
    /\ [][C27_Independent]_vars

C27_Witness ==
    /\ Len(models) = 2
    /\ pc[1] = "sleep"
    /\ attempt[1] = 0
    /\ Returned(2)
    /\ ~Exhausts(2)

(***************************************************************************)
(* C28: each executed round of a session writes one checkpoint, after the  *)
(* join, for the round that was dispatched and with the artifact that was  *)
(* dispatched; no later write changes the content of a checkpoint that     *)
(* exists.                                                                 *)
(***************************************************************************)
C28_CheckpointPerRound ==
    [][/\ (mainpc = "L963" /\ (session_state # None \/ args.session # None))
              => \E f \in checkpoints' :
                     /\ f.content = spec
                     /\ f.path[3] = args.round
                     /\ checkpoints' \ {f} = {g \in checkpoints :
                                                  g.path # f.path}
                     /\ \A i \in Threads : Returned(i)
       /\ mainpc # "L963" => checkpoints' = checkpoints
       /\ \A f \in checkpoints :
              \E g \in checkpoints' :
                  g.path = f.path /\ g.content = f.content]_vars

(***************************************************************************)
(* C29: an invocation calls cost_tracker.add at most once, on the attempt  *)
(* whose completion returned and with the token counts of that completion, *)
(* and makes no completion request after it; an invocation that returns    *)
(* an error has not called it.  So after the join the number of add calls  *)
(* of the round is the number of responses without error.                  *)
(***************************************************************************)
RECURSIVE AddCalls(_)
AddCalls(n) == IF n = 0 THEN 0 ELSE Len(calls[n]) + AddCalls(n - 1)

C29_AddOncePerSuccess ==
    /\ \A i \in Threads :
           /\ Len(calls[i]) <= 1
           /\ calls[i] # <<>>
                  => /\ io[i][Len(io[i])] = <<"completion", Requests(i) - 1>>
                     /\ ~IsRaise(completion[i][Requests(i)])
                     /\ calls[i][1] = AddCall(models[i],
                                              completion[i][Requests(i)])
           /\ Returned(i)
                  => /\ Len(calls[i]) = IF Response(i).error = None THEN 1
                                        ELSE 0
                     /\ calls[i] # <<>>
                            => calls[i][1] = <<Response(i).model,
                                               Response(i).input_tokens,
                                               Response(i).output_tokens>>
    /\ Joined
           => AddCalls(Len(models))
                  = Cardinality({j \in 1..Len(results) :
                                     results[j].error = None})

C29_Witness ==
    /\ mainpc = "done"
    /\ Len(models) = 2
    /\ Len(completion[1]) = MAX_RETRIES
    /\ calls[1] = <<<<KnownModel, 0, 0>>>>
    /\ Requests(1) = MAX_RETRIES
    /\ calls[2] = <<>>

(***************************************************************************)
(* C30: the persist of a round leaves session_id, models, focus, persona,  *)
(* preserve_intent and created_at of the stored record as they were, also  *)
(* when the round ran with options of the command line that the record     *)
(* has not set; only the creation of a session writes these fields.        *)
(***************************************************************************)
SameIdentity(a, b) ==
    /\ a.session_id = b.session_id
    /\ a.models = b.models
    /\ a.focus = b.focus
    /\ a.persona = b.persona
    /\ a.preserve_intent = b.preserve_intent
    /\ a.created_at = b.created_at

C30_PersistFrame ==
    [][/\ Persists
              => /\ HasRecord(sessions, SessionId)
                 /\ SameIdentity(Stored(sessions', SessionId),
                                 Stored(sessions, SessionId))
                 /\ \A id \in DOMAIN sessions' \ {SessionId} :
                        id \in DOMAIN sessions /\ sessions'[id] = sessions[id]
       /\ \A id \in DOMAIN sessions :
              (mainpc # "L931" /\ HasRecord(sessions, id))
                  => /\ HasRecord(sessions', id)
                     /\ SameIdentity(Stored(sessions', id),
                                     Stored(sessions, id))]_vars

\* A resumed round that ran with the focus of the command line has been
\* persisted and the record still has no focus.
C30_Witness ==
    /\ mainpc = "done"
    /\ args.resume = Some("s1")
    /\ args.focus = Some("risks")
    /\ args.preserve_intent
    /\ Stored(sessions, "s1").focus = None
    /\ ~Stored(sessions, "s1").preserve_intent
    /\ Len(Stored(sessions, "s1").history) = 2

(***************************************************************************)
(* C31  The round counter and the history of a record, over stops.         *)
(***************************************************************************)
\* The round a record's session was created with, as the record tells it.
CreationRound(st) == st.round - Len(st.history)

\* The history entries carry the rounds from the creation round on.
Consecutive(st) ==
    \A k \in 1..Len(st.history) :
        st.history[k].round = CreationRound(st) + k - 1

\* The step creates the session id: the save() of line 942.
Creates(id) ==
    /\ mainpc = "L931"
    /\ args.session = Some(id)
    /\ session_state = None
    /\ sessions' # sessions

\* C31: in every stored record of a session, the history entries' rounds
\* are consecutive from the round given at creation and the round number is
\* that round plus the length of the history: the step that creates the
\* session stores the round of the command line with an empty history, and
\* every later step up to the next creation of the id, the stops of the
\* process included, stores nothing or a record of the same creation round.
C31_RoundCountsHistory ==
    [][\A id \in DOMAIN sessions' :
           HasRecord(sessions', id) =>
               LET st == Stored(sessions', id)
               IN  /\ Consecutive(st)
                   /\ IF Creates(id)
                      THEN CreationRound(st) = args.round
                      ELSE /\ HasRecord(sessions, id)
                           /\ CreationRound(st)
                                  = CreationRound(Stored(sessions, id))]_vars

\* A resumed process has stored the first history entry of a session
\* created with --round 2: the creating process was stopped before its
\* persist.
C31_Witness ==
    /\ mainpc = "done"
    /\ args.resume = Some("s1")
    /\ HasRecord(sessions, "s1")
    /\ Stored(sessions, "s1").round = 3
    /\ Len(Stored(sessions, "s1").history) = 1
    /\ Stored(sessions, "s1").history[1].round = 2

====
